---- MODULE Spec2Model ----
(***************************************************************************)
(* CarbonAgro (src/CarbonAgro/main.py): a Streamlit script that is run     *)
(* again from top to bottom after every widget interaction.  The state is  *)
(* the two tables read once by load_data, the widget values, and what the  *)
(* last run of the script put on the page.                                 *)
(*                                                                         *)
(* Numbers are exact extended rationals <<n, d>>: d > 0 is the finite      *)
(* value n/d in lowest terms, <<1,0>> is +inf, <<-1,0>> is -inf and        *)
(* <<0,0>> is NaN (which is also how pandas stores a missing cell).        *)
(* Binary floating point rounding and overflow are not modelled.           *)
(***************************************************************************)
EXTENDS Integers, Sequences, FiniteSets

\* ------------------------------------------------------------------ bounds
MaxYieldRows == 2
MaxMeasureRows == 3

\* ------------------------------------------------------- extended rationals
Abs(x) == IF x < 0 THEN -x ELSE x
Sign(x) == IF x < 0 THEN -1 ELSE IF x > 0 THEN 1 ELSE 0

RECURSIVE Gcd(_, _)
Gcd(a, b) == IF b = 0 THEN a ELSE Gcd(b, a % b)

Norm(n, d) ==
    IF d = 0 THEN <<Sign(n), 0>>
    ELSE LET g == Gcd(Abs(n), Abs(d)) IN <<(Sign(d) * n) \div g, Abs(d) \div g>>

Num(i) == <<i, 1>>
Inf == <<1, 0>>
NegInf == <<-1, 0>>
NaN == <<0, 0>>
NONE == <<>>

IsNaN(x) == x = NaN
IsFinite(x) == x[2] > 0

\* float multiplication: inf * 0 and anything * NaN are NaN
RMul(x, y) == Norm(x[1] * y[1], x[2] * y[2])

\* float addition: inf + (-inf) and anything + NaN are NaN
RAdd(x, y) ==
    IF x[2] = 0 /\ y[2] = 0
    THEN (IF x = y THEN x ELSE NaN)
    ELSE Norm(x[1] * y[2] + y[1] * x[2], x[2] * y[2])

\* x <= y as floats compare: every comparison with NaN is false
RLeq(x, y) ==
    /\ ~IsNaN(x)
    /\ ~IsNaN(y)
    /\ \/ x = y
       \/ x = NegInf
       \/ y = Inf
       \/ IsFinite(x) /\ IsFinite(y) /\ x[1] * y[2] <= y[1] * x[2]

\* ------------------------------------------------------------------- text
NoCrop == "<missing>"
CropNames == {"Wheat", "wheat", "Rice"}

\* str.lower()
Lower(s) ==
    CASE s = "Wheat" -> "wheat"
      [] s = "wheat" -> "wheat"
      [] s = "Rice" -> "rice"
      [] OTHER -> s

MeasureTexts == {"drip irrigation", "rotate crops"}

\* ------------------------------------------------------------- input sets
FootprintCells == {NaN, Inf, NegInf, Num(-3), Num(0), Num(3)}

YieldRows ==
    [crop : CropNames, carbon_footprint : FootprintCells]
        \cup {[crop |-> NoCrop, carbon_footprint |-> NaN]}

YieldRowsBare == [crop : CropNames \cup {NoCrop}]

MeasureRows == [crop : CropNames, necessary_measures : MeasureTexts]

Tables(rows, k) == UNION {[1..n -> rows] : n \in 0..k}

Areas == {Num(0), <<1, 10>>, Num(10)}
Fertilizers == {Num(0), Num(50)}
Pesticides == {Num(0), Num(20)}

Pages == {"Home", "About", "Crop Analysis"}

VARIABLES
    df, df_columns, measures,
    app_mode, selected_crop, area, fertilizer, pesticide,
    outcome, base_factor, predicted_cf, displayed_cf, unique_measures, warning

vars == <<df, df_columns, measures,
          app_mode, selected_crop, area, fertilizer, pesticide,
          outcome, base_factor, predicted_cf, displayed_cf, unique_measures, warning>>

\* ------------------------------------------------------------ pandas helpers
RECURSIVE Filter(_, _)
Filter(s, keep) ==
    IF s = <<>> THEN <<>>
    ELSE IF keep[Head(s)] THEN <<Head(s)>> \o Filter(Tail(s), keep)
    ELSE Filter(Tail(s), keep)

Range(s) == {s[i] : i \in DOMAIN s}

\* Series.unique() / Series.drop_duplicates(): keep the first occurrence
RECURSIVE Unique(_)
Unique(s) ==
    IF s = <<>> THEN <<>>
    ELSE LET front == Unique(SubSeq(s, 1, Len(s) - 1))
             last == s[Len(s)]
         IN IF last \in Range(front) THEN front ELSE Append(front, last)

Column(table, name) == [i \in DOMAIN table |-> table[i][name]]

\* faulty variant of CropMatches: the comparison without .lower()
CropMatchesCaseSensitive(cell, selected) == cell # NoCrop /\ cell = selected

\* table[table["crop"].str.lower() == selected.lower()]: .str.lower() of a
\* missing cell is missing, and missing == "text" is False
CropMatches(cell, selected) == cell # NoCrop /\ Lower(cell) = Lower(selected)

CropFilter(table, selected) ==
    Filter(table, [r \in Range(table) |-> CropMatches(r.crop, selected)])

\* faulty variants of ReplaceInf: only +inf is replaced; nothing is replaced
ReplaceInfPositiveOnly(v) == IF v = Inf THEN NaN ELSE v

ReplaceInfNothing(v) == v

\* .replace([inf, -inf], nan)
ReplaceInf(v) == IF v = Inf \/ v = NegInf THEN NaN ELSE v

\* .dropna()
DropNa(s) == Filter(s, [v \in Range(s) |-> ~IsNaN(v)])

RECURSIVE Sum(_)
Sum(s) == IF s = <<>> THEN Num(0) ELSE RAdd(Head(s), Sum(Tail(s)))

\* Series.mean(): missing cells are skipped, the mean of nothing is NaN
Mean(s) ==
    LET present == DropNa(s)
    IN IF present = <<>> THEN NaN ELSE RMul(Sum(present), <<1, Len(present)>>)

\* --------------------------------------------------------- the Crop Analysis page
DEFAULT_FACTOR == Num(1)
fertilizer_factor == Norm(2, 1000)
pesticide_factor == Norm(1, 1000)

CleanedFootprints(crop_data) ==
    DropNa([i \in DOMAIN crop_data |-> ReplaceInf(crop_data[i].carbon_footprint)])

\* faulty variant of NonPositive: base_factor < 0
NonPositiveStrict(x) == RLeq(x, Num(0)) /\ x # Num(0)

\* base_factor <= 0
NonPositive(x) == RLeq(x, Num(0))

BaseFactor(crop_data) ==
    IF "carbon_footprint" \in df_columns
    THEN LET m == Mean(CleanedFootprints(crop_data))
         IN IF IsNaN(m) \/ NonPositive(m) THEN DEFAULT_FACTOR ELSE m
    ELSE DEFAULT_FACTOR

\* faulty variants of PredictedCf: the two emission factors exchanged; the pesticide
\* term subtracted
PredictedCfSwapped(a, bf, f, p) ==
    RAdd(RAdd(RMul(a, bf), RMul(f, pesticide_factor)), RMul(p, fertilizer_factor))

PredictedCfMinus(a, bf, f, p) ==
    RAdd(RAdd(RMul(a, bf), RMul(f, fertilizer_factor)),
         RMul(RMul(Num(-1), p), pesticide_factor))

PredictedCf(a, bf, f, p) ==
    RAdd(RAdd(RMul(a, bf), RMul(f, fertilizer_factor)), RMul(p, pesticide_factor))

\* f"{x:.2f}": the nearest hundredth, ties to even; inf and nan print as such
Format2f(x) ==
    IF ~IsFinite(x) THEN x
    ELSE LET n == 100 * x[1]
             q == n \div x[2]
             r == n - q * x[2]
             h == IF 2 * r < x[2] THEN q
                  ELSE IF 2 * r > x[2] THEN q + 1
                  ELSE IF q % 2 = 0 THEN q ELSE q + 1
         IN <<h, 100>>

\* faulty variant of UniqueMeasures: .tolist() without .drop_duplicates()
UniqueMeasuresNoDedup(crop_measures) == Column(crop_measures, "necessary_measures")

UniqueMeasures(crop_measures) == Unique(Column(crop_measures, "necessary_measures"))

\* faulty variant of AreaGate: area >= 0
AreaGateInclusive(a) == RLeq(Num(0), a)

\* faulty variant of NoMeasures: the else branch never taken
NoMeasuresNever(crop_measures) == FALSE

\* crop_measures.empty
NoMeasures(crop_measures) == crop_measures = <<>>

\* area > 0
AreaGate(a) == RLeq(Num(0), a) /\ a # Num(0)

crop_list == Unique(Column(df, "crop"))

\* st.selectbox starts on the first option, or on None when there is none;
\* None and a missing cell (nan) are both written NoCrop: neither has .lower()
DefaultCrop == IF crop_list = <<>> THEN NoCrop ELSE crop_list[1]

Blank(what) ==
    [outcome |-> what, base_factor |-> NONE, predicted_cf |-> NONE,
     displayed_cf |-> NONE, unique_measures |-> <<>>, warning |-> FALSE]

\* One run of the script with the given widget values.  With no crop text
\* selected (nan or None), selected_crop.lower() raises AttributeError, which
\* nothing catches: the run ends there.  The yield filter of a selected text
\* always keeps the row it was listed from, so "no_crop_data" is never taken.
Script(mode, crop, a, f, p) ==
    IF mode # "Crop Analysis" THEN Blank("other_page")
    ELSE IF ~AreaGate(a) THEN Blank("no_area")
    ELSE IF crop = NoCrop THEN Blank("AttributeError")
    ELSE LET crop_data == CropFilter(df, crop)
         IN IF crop_data = <<>> THEN Blank("no_crop_data")
            ELSE LET bf == BaseFactor(crop_data)
                     cf == PredictedCf(a, bf, f, p)
                     crop_measures == CropFilter(measures, crop)
                 IN [outcome |-> "shown",
                     base_factor |-> bf,
                     predicted_cf |-> cf,
                     displayed_cf |-> Format2f(cf),
                     unique_measures |->
                         IF NoMeasures(crop_measures) THEN <<>>
                         ELSE UniqueMeasures(crop_measures),
                     warning |-> NoMeasures(crop_measures)]

Show(run) ==
    /\ outcome' = run.outcome
    /\ base_factor' = run.base_factor
    /\ predicted_cf' = run.predicted_cf
    /\ displayed_cf' = run.displayed_cf
    /\ unique_measures' = run.unique_measures
    /\ warning' = run.warning

\* ------------------------------------------------------------------- Init
FixedMeasures ==
    << [crop |-> "wheat", necessary_measures |-> "drip irrigation"],
       [crop |-> "Wheat", necessary_measures |-> "rotate crops"] >>

FixedYields ==
    { << [crop |-> "Wheat", carbon_footprint |-> Num(2)],
         [crop |-> "wheat", carbon_footprint |-> Num(3)] >>,
      << [crop |-> "Rice", carbon_footprint |-> Num(2)] >> }

InitTables ==
    \/ /\ df_columns = {"crop", "carbon_footprint"}
       /\ df \in Tables(YieldRows, MaxYieldRows)
       /\ measures = FixedMeasures
    \/ /\ df_columns = {"crop"}
       /\ df \in Tables(YieldRowsBare, MaxYieldRows)
       /\ measures = FixedMeasures
    \/ /\ df_columns = {"crop", "carbon_footprint"}
       /\ df \in FixedYields
       /\ measures \in Tables(MeasureRows, MaxMeasureRows)

Init ==
    /\ InitTables
    /\ app_mode = "Home"
    /\ selected_crop = DefaultCrop
    /\ area = Num(0)
    /\ fertilizer = Num(0)
    /\ pesticide = Num(0)
    /\ outcome = "other_page"
    /\ base_factor = NONE
    /\ predicted_cf = NONE
    /\ displayed_cf = NONE
    /\ unique_measures = <<>>
    /\ warning = FALSE

\* ---------------------------------------------------------------- actions
\* The sidebar selectbox.  Widgets that a run does not render lose their
\* value, so the analysis inputs are back at their defaults after a visit
\* to another page.
SelectPage(m) ==
    /\ app_mode' = m
    /\ IF m = "Crop Analysis" /\ app_mode = "Crop Analysis"
       THEN UNCHANGED <<selected_crop, area, fertilizer, pesticide>>
       ELSE /\ selected_crop' = DefaultCrop
            /\ area' = Num(0)
            /\ fertilizer' = Num(0)
            /\ pesticide' = Num(0)
    /\ Show(Script(m, selected_crop', area', fertilizer', pesticide'))
    /\ UNCHANGED <<df, df_columns, measures>>

SelectCrop(c) ==
    /\ app_mode = "Crop Analysis"
    /\ c \in Range(crop_list)
    /\ selected_crop' = c
    /\ Show(Script(app_mode, c, area, fertilizer, pesticide))
    /\ UNCHANGED <<df, df_columns, measures, app_mode, area, fertilizer, pesticide>>

EnterArea(a) ==
    /\ app_mode = "Crop Analysis"
    /\ area' = a
    /\ Show(Script(app_mode, selected_crop, a, fertilizer, pesticide))
    /\ UNCHANGED <<df, df_columns, measures, app_mode, selected_crop, fertilizer, pesticide>>

EnterFertilizer(f) ==
    /\ app_mode = "Crop Analysis"
    /\ fertilizer' = f
    /\ Show(Script(app_mode, selected_crop, area, f, pesticide))
    /\ UNCHANGED <<df, df_columns, measures, app_mode, selected_crop, area, pesticide>>

EnterPesticide(p) ==
    /\ app_mode = "Crop Analysis"
    /\ pesticide' = p
    /\ Show(Script(app_mode, selected_crop, area, fertilizer, p))
    /\ UNCHANGED <<df, df_columns, measures, app_mode, selected_crop, area, fertilizer>>

Next ==
    \/ \E m \in Pages : SelectPage(m)
    \/ \E c \in CropNames \cup {NoCrop} : SelectCrop(c)
    \/ \E a \in Areas : EnterArea(a)
    \/ \E f \in Fertilizers : EnterFertilizer(f)
    \/ \E p \in Pesticides : EnterPesticide(p)

Spec == Init /\ [][Next]_vars

\* ============================================================= properties
\* Vocabulary of the properties, written over the tables and the widget
\* values directly (none of it goes through the operators of the script).
OnAnalysis == app_mode = "Crop Analysis"
Shown == outcome = "shown"
HasFootprintColumn == "carbon_footprint" \in df_columns

SameCrop(cell, c) == cell # NoCrop /\ c # NoCrop /\ Lower(cell) = Lower(c)

YieldIdx == {i \in DOMAIN df : SameCrop(df[i].crop, selected_crop)}
MeasureIdx == {i \in DOMAIN measures : SameCrop(measures[i].crop, selected_crop)}

\* rows of the selected crop whose carbon_footprint is neither missing nor infinite
FiniteIdx ==
    IF HasFootprintColumn
    THEN {i \in YieldIdx : df[i].carbon_footprint[2] > 0}
    ELSE {}

\* every finite cell of the input sets is a whole number n/1
RECURSIVE SumCells(_)
SumCells(S) ==
    IF S = {} THEN 0
    ELSE LET i == CHOOSE j \in S : TRUE
         IN df[i].carbon_footprint[1] + SumCells(S \ {i})

Total == SumCells(FiniteIdx)
Count == Cardinality(FiniteIdx)

\* x = n/d for a finite x in lowest terms or not
Equals(x, n, d) == x # NONE /\ x[2] > 0 /\ x[1] * d = n * x[2]

\* area * base_factor + fertilizer * 0.002 + pesticide * 0.001 over one denominator
FormulaNum(bf) ==
    1000 * area[1] * bf[1] * fertilizer[2] * pesticide[2]
        + 2 * fertilizer[1] * area[2] * bf[2] * pesticide[2]
        + pesticide[1] * area[2] * bf[2] * fertilizer[2]
FormulaDen(bf) == 1000 * area[2] * bf[2] * fertilizer[2] * pesticide[2]

RiceExample ==
    /\ df = << [crop |-> "Rice", carbon_footprint |-> Num(2)] >>
    /\ HasFootprintColumn
    /\ OnAnalysis
    /\ selected_crop = "Rice"
    /\ area = Num(10)
    /\ fertilizer = Num(50)
    /\ pesticide = Num(20)

\* C1: whenever a footprint is produced it equals
\* area * base_factor + fertilizer * 0.002 + pesticide * 0.001, and what is
\* displayed is that value to the nearest hundredth; the single Rice row with
\* carbon_footprint 2.0 and area 10, fertilizer 50, pesticide 20 gives
\* base_factor 2.0 and the footprint 20.12.
C1_FootprintFormula ==
    /\ Shown =>
        /\ Equals(predicted_cf, FormulaNum(base_factor), FormulaDen(base_factor))
        /\ displayed_cf[2] = 100
        /\ 2 * Abs(100 * predicted_cf[1] - displayed_cf[1] * predicted_cf[2])
               <= predicted_cf[2]
    /\ RiceExample =>
        /\ base_factor = Num(2)
        /\ Equals(predicted_cf, 2012, 100)
        /\ displayed_cf = <<2012, 100>>

C1_Witness == RiceExample /\ Shown /\ displayed_cf = <<2012, 100>>

\* C2 as stated: a selected crop with at least one finite positive
\* carbon_footprint has base_factor equal to the mean of its finite values.
C2_Original ==
    (Shown /\ \E i \in FiniteIdx : df[i].carbon_footprint[1] > 0)
        => Equals(base_factor, Total, Count)

\* C2 (amended): a selected crop whose finite carbon_footprint values have a
\* mean greater than 0 has base_factor equal to that mean, the rows being
\* matched case-insensitively and aggregated.
C2_MeanOfFinite ==
    (Shown /\ Count > 0 /\ Total > 0) => Equals(base_factor, Total, Count)

C2_Witness ==
    /\ Shown
    /\ Count = 2
    /\ Total = 3
    /\ \E i, j \in FiniteIdx : df[i].crop # df[j].crop
    /\ base_factor = <<3, 2>>

\* C3: base_factor is exactly 1.0 when the carbon_footprint column is absent,
\* when every value of the selected crop is infinite or missing, and when the
\* mean of the cleaned values is <= 0.
C3_DefaultFactor ==
    (Shown /\ (~HasFootprintColumn \/ Count = 0 \/ Total <= 0))
        => base_factor = Num(1)

C3_Witness ==
    /\ Shown
    /\ HasFootprintColumn
    /\ Count = 2
    /\ Total = 0
    /\ base_factor = Num(1)

\* C4 as stated: a requested crop that matches no row of the yield table is
\* answered by CropNotFoundError, and no footprint is produced.
C4_Original ==
    (OnAnalysis /\ area # Num(0) /\ YieldIdx = {})
        => (outcome = "CropNotFoundError" /\ predicted_cf = NONE /\ displayed_cf = NONE)

\* C5: the measures returned are exactly the necessary_measures of the rows
\* whose crop matches case-insensitively, none twice, in the order of their
\* first occurrence in the table; [drip, drip, rotate] for Wheat gives
\* [drip, rotate].
FirstRow(m) == CHOOSE i \in MeasureIdx :
    /\ measures[i].necessary_measures = m
    /\ \A j \in MeasureIdx : measures[j].necessary_measures = m => i <= j

C5_Recommendations ==
    /\ Shown =>
        /\ Range(unique_measures) = {measures[i].necessary_measures : i \in MeasureIdx}
        /\ \A i, j \in DOMAIN unique_measures :
               i < j =>
                  /\ unique_measures[i] # unique_measures[j]
                  /\ FirstRow(unique_measures[i]) < FirstRow(unique_measures[j])
    /\ (Shown /\ selected_crop = "Wheat"
          /\ Column(measures, "crop") = <<"Wheat", "Wheat", "Wheat">>
          /\ Column(measures, "necessary_measures")
               = <<"drip irrigation", "drip irrigation", "rotate crops">>)
        => unique_measures = <<"drip irrigation", "rotate crops">>

C5_Witness ==
    /\ Shown
    /\ selected_crop = "Wheat"
    /\ Column(measures, "crop") = <<"Wheat", "Wheat", "Wheat">>
    /\ Column(measures, "necessary_measures")
         = <<"drip irrigation", "drip irrigation", "rotate crops">>
    /\ unique_measures = <<"drip irrigation", "rotate crops">>

C7_CaseInsensitive ==
    [][(/\ OnAnalysis
        /\ app_mode' = app_mode
        /\ selected_crop' # selected_crop
        /\ Lower(selected_crop') = Lower(selected_crop)
        /\ <<area, fertilizer, pesticide>>' = <<area, fertilizer, pesticide>>)
       => <<outcome, base_factor, predicted_cf, displayed_cf, unique_measures, warning>>'
            = <<outcome, base_factor, predicted_cf, displayed_cf, unique_measures, warning>>]_vars

C7_Witness ==
    /\ Shown
    /\ selected_crop = "wheat"
    /\ DefaultCrop = "Wheat"
    /\ HasFootprintColumn
    /\ \E i, j \in FiniteIdx :
          df[i].crop = "Wheat" /\ df[j].crop = "wheat"
              /\ df[i].carbon_footprint # df[j].carbon_footprint
    /\ \E i, j \in MeasureIdx :
          measures[i].crop = "Wheat" /\ measures[j].crop = "wheat"
              /\ measures[i].necessary_measures # measures[j].necessary_measures

\* C8 as stated: every crop of the yield table with area >= 0 (area = 0
\* included) gets a footprint, fertilizer * 0.002 + pesticide * 0.001 when
\* area = 0.
C8_Original ==
    (OnAnalysis /\ selected_crop # NoCrop)
        => /\ Shown
           /\ Equals(predicted_cf, FormulaNum(base_factor), FormulaDen(base_factor))

\* C8 (amended): every crop of the yield table with area > 0 gets a footprint
\* and the recommendation lookup is performed; with area = 0 nothing is
\* produced: no footprint, no recommendations, no warning.
C8_FootprintProduced ==
    /\ (OnAnalysis /\ selected_crop # NoCrop /\ area # Num(0)) =>
          /\ Shown
          /\ predicted_cf # NONE
          /\ displayed_cf # NONE
          /\ (MeasureIdx # {}) = (unique_measures # <<>>)
          /\ (MeasureIdx = {}) = warning
    /\ (OnAnalysis /\ area = Num(0)) =>
          /\ outcome = "no_area"
          /\ predicted_cf = NONE
          /\ displayed_cf = NONE
          /\ unique_measures = <<>>
          /\ ~warning

C8_Witness ==
    /\ OnAnalysis
    /\ selected_crop # NoCrop
    /\ area = <<1, 10>>
    /\ fertilizer = Num(50)
    /\ Shown
    /\ unique_measures # <<>>

\* C9: raising one of area, fertilizer, pesticide with the crop and the
\* other two unchanged never lowers the footprint.
Leq(x, y) == x[1] * y[2] <= y[1] * x[2]

C9_Monotone ==
    [][(/\ Shown
        /\ Shown'
        /\ selected_crop' = selected_crop
        /\ Leq(area, area')
        /\ Leq(fertilizer, fertilizer')
        /\ Leq(pesticide, pesticide'))
       => Leq(predicted_cf, predicted_cf')]_vars

C9_Witness ==
    /\ Shown
    /\ area = Num(10)
    /\ fertilizer = Num(50)
    /\ pesticide = Num(20)
    /\ Equals(predicted_cf, FormulaNum(base_factor), FormulaDen(base_factor))
    /\ base_factor = <<3, 2>>

====
